---- MODULE Spec2Model ----
(***************************************************************************)
(* A model of employee_system.py: the Employee record, the generator, the  *)
(* analyzer (department statistics, top performers, salary distribution,   *)
(* report), the CSV file manager and the main pipeline.                    *)
(*                                                                         *)
(* Representation of Python values:                                        *)
(*   str    a sequence of one-character strings                            *)
(*   int    an integer                                                     *)
(*   list   a sequence                                                     *)
(*   dict   a sequence of [key, value] items in insertion order            *)
(*   float  performance scores are one-decimal values and are held as an   *)
(*          integer number of tenths (7.5 is 75); the percentage computed  *)
(*          by generate_report is held as an IEEE-754 double, see Float    *)
(***************************************************************************)
EXTENDS Integers, Sequences, FiniteSets, TLC

VARIABLES
    entry,          \* the entry point that is running
    pc,             \* the position inside it
    employees,      \* the list of Employee the entry point works on
    num_employees,  \* argument of generate_employees
    i,              \* loop index of generate_employees
    n,              \* argument of get_top_performers
    top,            \* return value of get_top_performers
    ranges,         \* return value of get_salary_range_distribution
    dept_data,      \* return value of get_department_statistics
    lines,          \* the report under construction in generate_report
    report,         \* return value of generate_report: <<>> (none) or <<r>>
    error,          \* the exception that ended the entry point, if any
    csv_file,       \* the employees CSV file on disk
    report_file,    \* the report text file on disk
    reader,         \* the DictReader of load_from_csv: unread text, fieldnames
    loaded,         \* the employees list load_from_csv builds and returns
    console         \* what main printed, in order

vars == <<entry, pc, employees, num_employees, i, n, top, ranges, dept_data,
          lines, report, error, csv_file, report_file, reader, loaded, console>>

----------------------------------------------------------------------------
(* Bounds of the model *)

\* longest employee list handed to the analyzer operations
MaxEmp == 4
\* largest num_employees handed to generate_employees
MaxCount == 10
\* number of employees main generates in the model (the program uses 100)
MainCount == 5
\* longest name string in the CSV round trip
MaxStr == 2
\* longest employee list in the CSV round trip
MaxCsvEmp == 2
\* size of the two-range employee lists on which the report is also run
WideTotal == 50

----------------------------------------------------------------------------
(* Generic helpers *)

Min(a, b) == IF a < b THEN a ELSE b

Max(a, b) == IF a > b THEN a ELSE b

Reverse(s) == [k \in 1..Len(s) |-> s[Len(s) + 1 - k]]

\* Loops over a list are folded by halves, and a fold first looks at its
\* accumulator (Len(acc) >= 0), so that TLC evaluates the accumulator before
\* it descends: both keep the evaluation shallow.
RECURSIVE SumRange(_, _, _)
SumRange(s, lo, hi) ==
    IF lo > hi THEN 0
    ELSE IF lo = hi THEN s[lo]
    ELSE SumRange(s, lo, (lo + hi) \div 2) + SumRange(s, ((lo + hi) \div 2) + 1, hi)

\* sum(s)
SumSeq(s) == SumRange(s, 1, Len(s))

RECURSIVE Concat(_)
Concat(ss) == IF ss = <<>> THEN <<>> ELSE ss[1] \o Concat(Tail(ss))

Repeat(c, k) == [j \in 1..k |-> c]

\* all sequences over S of length at most k
SeqsUpTo(S, k) == UNION {[1..m -> S] : m \in 0..k}

----------------------------------------------------------------------------
(* Python dict as an insertion-ordered sequence of items *)

DictHas(d, k) == \E j \in 1..Len(d) : d[j].key = k

DictIndex(d, k) == CHOOSE j \in 1..Len(d) : d[j].key = k

DictGet(d, k) == d[DictIndex(d, k)].value

\* d[k] = v: replaces the value in place, or appends a new item
DictSet(d, k, v) ==
    IF DictHas(d, k)
    THEN [d EXCEPT ![DictIndex(d, k)].value = v]
    ELSE Append(d, [key |-> k, value |-> v])

----------------------------------------------------------------------------
(* Python's sorted(): a stable sort of items decorated with integer keys.  *)
(* Each element of the argument is <<key, item>>.                          *)

\* insert p behind every element whose key is not larger: keeps ties in order
InsertStable(p, s) ==
    LET k == Cardinality({j \in 1..Len(s) : s[j][1] <= p[1]})
    IN  SubSeq(s, 1, k) \o <<p>> \o SubSeq(s, k + 1, Len(s))

\* the elements s[lo..hi] inserted one after the other into acc
RECURSIVE SortFold(_, _, _, _)
SortFold(acc, s, lo, hi) ==
    IF Len(acc) >= 0 /\ lo > hi THEN acc
    ELSE IF lo = hi THEN InsertStable(s[lo], acc)
    ELSE SortFold(SortFold(acc, s, lo, (lo + hi) \div 2),
                  s, ((lo + hi) \div 2) + 1, hi)

StableSortAsc(s) == SortFold(<<>>, s, 1, Len(s))

PySortedUnstableReverse(s, reverse) ==
    LET r == StableSortAsc(s)
    IN  [k \in 1..Len(s) |-> (IF reverse THEN Reverse(r) ELSE r)[k][2]]

\* sorted(items, key=..., reverse=...): with reverse the list is reversed,
\* sorted ascending and reversed again, so equal keys keep their order
PySorted(s, reverse) ==
    LET r == IF reverse THEN Reverse(StableSortAsc(Reverse(s)))
                        ELSE StableSortAsc(s)
    IN  [k \in 1..Len(s) |-> r[k][2]]

\* s[:k]
PySliceTo(s, k) ==
    IF k >= 0 THEN SubSeq(s, 1, Min(k, Len(s)))
              ELSE SubSeq(s, 1, Max(Len(s) + k, 0))

----------------------------------------------------------------------------
(* Float: IEEE-754 binary64 for the values generate_report computes from   *)
(* count / len(employees).  A positive double is [m, e]: m holds its 53    *)
(* significand bits, most significant first (m[1] = 1), and its value is   *)
(* m * 2^e.  Zero is FloatZero.  All results are rounded to nearest, ties  *)
(* to even, as the hardware does.                                          *)

Precision == 53

FloatZero == [m |-> <<>>, e |-> 0]

\* the bits of k, most significant first, without leading zeros
RECURSIVE BitsOf(_)
BitsOf(k) == IF k = 0 THEN <<>> ELSE Append(BitsOf(k \div 2), k % 2)

\* the w low bits of v, most significant first
BitsOfWidth(v, w) == [j \in 1..w |-> (v \div (2 ^ (w - j))) % 2]

\* the value of a short bit sequence
RECURSIVE BitsValue(_)
BitsValue(b) ==
    IF b = <<>> THEN 0
    ELSE 2 * BitsValue(SubSeq(b, 1, Len(b) - 1)) + b[Len(b)]

StripLeadingZeros(b) ==
    LET ones == {j \in 1..Len(b) : b[j] = 1}
    IN  IF ones = {} THEN <<>>
        ELSE SubSeq(b, CHOOSE j \in ones : \A k \in ones : j <= k, Len(b))

\* b + 1: the last 0 becomes 1 and the ones behind it become 0
BitsInc(b) ==
    LET zeros == {j \in 1..Len(b) : b[j] = 0}
    IN  IF zeros = {} THEN <<1>> \o Repeat(0, Len(b))
        ELSE LET z == CHOOSE j \in zeros : \A k \in zeros : k <= j
             IN  [j \in 1..Len(b) |->
                    IF j < z THEN b[j] ELSE IF j = z THEN 1 ELSE 0]

\* L * k + carry on 16-bit limbs, most significant first
RECURSIVE MulLimbs(_, _, _)
MulLimbs(L, k, carry) ==
    IF L = <<>> THEN <<carry>>
    ELSE LET v == L[Len(L)] * k + carry
         IN  Append(MulLimbs(SubSeq(L, 1, Len(L) - 1), k, v \div 65536),
                    v % 65536)

\* b * k + carry on bit sequences, computed limb by limb
MulBits(b, k, carry) ==
    LET w      == ((Len(b) + 15) \div 16) * 16
        padded == Repeat(0, w - Len(b)) \o b
        L      == [j \in 1..(w \div 16) |->
                      BitsValue(SubSeq(padded, 16 * (j - 1) + 1, 16 * j))]
        P      == MulLimbs(L, k, carry)
    IN  StripLeadingZeros(Concat([j \in 1..Len(P) |-> BitsOfWidth(P[j], 16)]))

\* the double nearest to b * 2^e (b without leading zeros); inexact says
\* that a non-zero remainder below the last bit of b was dropped
RoundBits(b, e, inexact) ==
    IF Len(b) <= Precision
    THEN [m |-> b \o Repeat(0, Precision - Len(b)),
          e |-> e - (Precision - Len(b))]
    ELSE LET keep   == SubSeq(b, 1, Precision)
             rest   == SubSeq(b, Precision + 1, Len(b))
             sticky == inexact \/ \E j \in 2..Len(rest) : rest[j] = 1
             up     == rest[1] = 1 /\ (sticky \/ keep[Precision] = 1)
             e2     == e + Len(rest)
             inc    == BitsInc(keep)
         IN  IF ~up THEN [m |-> keep, e |-> e2]
             ELSE IF Len(inc) > Precision
                  THEN [m |-> SubSeq(inc, 1, Precision), e |-> e2 + 1]
                  ELSE [m |-> inc, e |-> e2]

\* long division, 16 quotient bits at a time: extends the quotient bits q
\* (remainder r, divisor d) until more than Precision of them are
\* significant; frac counts the fractional bits
RECURSIVE DivBits(_, _, _, _)
DivBits(q, r, d, frac) ==
    IF Len(StripLeadingZeros(q)) >= Precision + 1
    THEN [q |-> StripLeadingZeros(q), r |-> r, frac |-> frac]
    ELSE DivBits(q \o BitsOfWidth((r * 65536) \div d, 16),
                 (r * 65536) % d, d, frac + 16)

\* a / b for ints a >= 0, b > 0: the correctly rounded quotient
FloatDiv(a, b) ==
    IF a = 0 THEN FloatZero
    ELSE LET s == DivBits(BitsOf(a \div b), a % b, b, 0)
         IN  RoundBits(s.q, 0 - s.frac, s.r # 0)

\* x * k for a small int k >= 0 (k converts to a double exactly)
FloatMulInt(x, k) ==
    IF x.m = <<>> \/ k = 0 THEN FloatZero
    ELSE RoundBits(MulBits(x.m, k, 0), x.e, FALSE)

\* x / 2: exact
FloatHalf(x) == IF x.m = <<>> THEN FloatZero ELSE [x EXCEPT !.e = @ - 1]

\* int(x) for x >= 0: truncation
FloatTrunc(x) ==
    IF x.m = <<>> THEN 0
    ELSE IF x.e >= 0 THEN BitsValue(x.m) * (2 ^ x.e)
    ELSE BitsValue(SubSeq(x.m, 1, Len(x.m) + x.e))

\* the digits f"{x:.1f}" shows, as a number of tenths: x * 10 rounded to the
\* nearest integer, ties to even, on the exact value of x
FloatTenths(x) ==
    IF x.m = <<>> THEN 0
    ELSE LET b == MulBits(x.m, 10, 0)
             p == Len(b) + x.e
         IN  IF x.e >= 0 THEN BitsValue(b) * (2 ^ x.e)
             ELSE IF p < 0 THEN 0
             ELSE LET ip   == BitsValue(SubSeq(b, 1, p))
                      fr   == SubSeq(b, p + 1, Len(b))
                      rest == \E j \in 2..Len(fr) : fr[j] = 1
                      up   == fr[1] = 1 /\ (rest \/ ip % 2 = 1)
                  IN  IF up THEN ip + 1 ELSE ip

----------------------------------------------------------------------------
(* str() of numbers and float() of strings *)

DigitChars == <<"0", "1", "2", "3", "4", "5", "6", "7", "8", "9">>

IsDigit(c) == \E d \in 1..10 : DigitChars[d] = c

DigitValue(c) == (CHOOSE d \in 1..10 : DigitChars[d] = c) - 1

RECURSIVE StrOfNat(_)
StrOfNat(k) ==
    IF k < 10 THEN <<DigitChars[k + 1]>>
    ELSE Append(StrOfNat(k \div 10), DigitChars[(k % 10) + 1])

\* str(k) for an int
StrOfInt(k) == IF k < 0 THEN <<"-">> \o StrOfNat(0 - k) ELSE StrOfNat(k)

\* f"{k:04d}": at least four digits, padded with zeros on the left
Format04d(k) ==
    LET d == StrOfInt(k) IN Repeat("0", 4 - Len(d)) \o d

\* str(x) for a float x >= 0 with one decimal, x given in tenths
StrOfTenths(t) ==
    StrOfNat(t \div 10) \o <<".">> \o <<DigitChars[(t % 10) + 1]>>

RECURSIVE NatOfDigits(_)
NatOfDigits(s) ==
    IF s = <<>> THEN 0
    ELSE 10 * NatOfDigits(SubSeq(s, 1, Len(s) - 1)) + DigitValue(s[Len(s)])

AllDigits(s) == \A j \in 1..Len(s) : IsDigit(s[j])

\* float(s) for the decimal strings str() produces: digits, optionally
\* followed by "." and one digit.  ok = FALSE stands for ValueError.
ParseFloat(s) ==
    LET dot == {j \in 1..Len(s) : s[j] = "."}
    IN  IF dot = {}
        THEN IF s # <<>> /\ AllDigits(s)
             THEN [ok |-> TRUE, tenths |-> 10 * NatOfDigits(s)]
             ELSE [ok |-> FALSE, tenths |-> 0]
        ELSE LET d  == CHOOSE j \in dot : TRUE
                 ip == SubSeq(s, 1, d - 1)
                 fp == SubSeq(s, d + 1, Len(s))
             IN  IF Cardinality(dot) = 1 /\ ip # <<>> /\ AllDigits(ip)
                    /\ Len(fp) = 1 /\ AllDigits(fp)
                 THEN [ok |-> TRUE,
                       tenths |-> 10 * NatOfDigits(ip) + NatOfDigits(fp)]
                 ELSE [ok |-> FALSE, tenths |-> 0]

----------------------------------------------------------------------------
(* String constants of the program *)

S_Engineering == <<"E", "n", "g", "i", "n", "e", "e", "r", "i", "n", "g">>
S_Sales == <<"S", "a", "l", "e", "s">>
S_Marketing == <<"M", "a", "r", "k", "e", "t", "i", "n", "g">>
S_HR == <<"H", "R">>
S_Finance == <<"F", "i", "n", "a", "n", "c", "e">>

DEPARTMENTS == <<S_Engineering, S_Sales, S_Marketing, S_HR, S_Finance>>

\* base_salaries of generate_employees
base_salaries ==
    <<[key |-> S_Engineering, value |-> 80000],
      [key |-> S_Sales,       value |-> 60000],
      [key |-> S_Marketing,   value |-> 55000],
      [key |-> S_HR,          value |-> 50000],
      [key |-> S_Finance,     value |-> 70000]>>

\* the range labels of get_salary_range_distribution, in insertion order
RANGE_LABELS ==
    <<<<"0", "-", "5", "0", "k">>,
      <<"5", "0", "k", "-", "7", "0", "k">>,
      <<"7", "0", "k", "-", "9", "0", "k">>,
      <<"9", "0", "k", "-", "1", "0", "0", "k">>,
      <<"1", "0", "0", "k", "+">>>>

\* fieldnames of save_to_csv
fieldnames ==
    <<<<"e", "m", "p", "_", "i", "d">>,
      <<"n", "a", "m", "e">>,
      <<"d", "e", "p", "a", "r", "t", "m", "e", "n", "t">>,
      <<"s", "a", "l", "a", "r", "y">>,
      <<"j", "o", "i", "n", "i", "n", "g", "_", "d", "a", "t", "e">>,
      <<"p", "e", "r", "f", "o", "r", "m", "a", "n", "c", "e", "_", "s", "c", "o", "r", "e">>>>

\* None
PyNone == <<"None">>

\* characters in code point order, for comparing strings
CharOrder ==
    <<"\n", "\r", " ", "\"", "#", "+", ",", "-", ".",
      "0", "1", "2", "3", "4", "5", "6", "7", "8", "9",
      "A", "B", "C", "D", "E", "F", "G", "H", "I", "J", "K", "L", "M",
      "N", "O", "P", "Q", "R", "S", "T", "U", "V", "W", "X", "Y", "Z", "_",
      "a", "b", "c", "d", "e", "f", "g", "h", "i", "j", "k", "l", "m",
      "n", "o", "p", "q", "r", "s", "t", "u", "v", "w", "x", "y", "z">>

Ord(c) == CHOOSE k \in 1..Len(CharOrder) : CharOrder[k] = c

\* a < b on str: lexicographic by code point
StrLess(a, b) ==
    \E k \in 1..(Min(Len(a), Len(b)) + 1) :
        /\ \A j \in 1..(k - 1) : a[j] = b[j]
        /\ \/ k > Len(a) /\ k <= Len(b)
           \/ k <= Len(a) /\ k <= Len(b) /\ Ord(a[k]) < Ord(b[k])

\* Employee(...)
Employee(emp_id, name, department, salary, joining_date, performance_score) ==
    [emp_id |-> emp_id, name |-> name, department |-> department,
     salary |-> salary, joining_date |-> joining_date,
     performance_score |-> performance_score]

\* Employee.to_dict
to_dict(emp) ==
    <<[key |-> fieldnames[1], value |-> emp.emp_id],
      [key |-> fieldnames[2], value |-> emp.name],
      [key |-> fieldnames[3], value |-> emp.department],
      [key |-> fieldnames[4], value |-> emp.salary],
      [key |-> fieldnames[5], value |-> emp.joining_date],
      [key |-> fieldnames[6], value |-> emp.performance_score]>>

----------------------------------------------------------------------------
(* EmployeeAnalyzer: the pure part of its methods *)

\* get_top_performers(n): sorted(..., key=performance_score, reverse=True)[:n]
get_top_performers(emps, k) ==
    PySliceTo(PySorted([j \in 1..Len(emps) |->
                           <<emps[j].performance_score, emps[j]>>], TRUE), k)

\* the if/elif chain of get_salary_range_distribution
RangeOfInclusive(salary) ==
    IF salary <= 50000 THEN RANGE_LABELS[1]
    ELSE IF salary <= 70000 THEN RANGE_LABELS[2]
    ELSE IF salary <= 90000 THEN RANGE_LABELS[3]
    ELSE IF salary <= 100000 THEN RANGE_LABELS[4]
    ELSE RANGE_LABELS[5]

RangeOf(salary) ==
    IF salary < 50000 THEN RANGE_LABELS[1]
    ELSE IF salary < 70000 THEN RANGE_LABELS[2]
    ELSE IF salary < 90000 THEN RANGE_LABELS[3]
    ELSE IF salary < 100000 THEN RANGE_LABELS[4]
    ELSE RANGE_LABELS[5]

\* the loop of get_salary_range_distribution over emps[lo..hi]
RECURSIVE CountRanges(_, _, _, _)
CountRanges(r, emps, lo, hi) ==
    IF Len(r) >= 0 /\ lo > hi THEN r
    ELSE IF lo = hi
    THEN DictSet(r, RangeOf(emps[lo].salary),
                 DictGet(r, RangeOf(emps[lo].salary)) + 1)
    ELSE CountRanges(CountRanges(r, emps, lo, (lo + hi) \div 2),
                     emps, ((lo + hi) \div 2) + 1, hi)

get_salary_range_distribution(emps) ==
    CountRanges([j \in 1..Len(RANGE_LABELS) |->
                    [key |-> RANGE_LABELS[j], value |-> 0]],
                emps, 1, Len(emps))

\* the first loop of get_department_statistics: one group per department,
\* created when its first employee is met
AddToGroupAlwaysNew(d0, emp) ==
    DictSet(d0, emp.department,
            [count |-> 1, total_salary |-> emp.salary,
             total_performance |-> emp.performance_score,
             employees |-> <<emp>>])

AddToGroup(d0, emp) ==
    LET dept == emp.department
        d1   == IF ~DictHas(d0, dept)
                THEN DictSet(d0, dept, [count |-> 0, total_salary |-> 0,
                                        total_performance |-> 0,
                                        employees |-> <<>>])
                ELSE d0
        g    == DictGet(d1, dept)
    IN  DictSet(d1, dept,
                [count |-> g.count + 1,
                 total_salary |-> g.total_salary + emp.salary,
                 total_performance |->
                     g.total_performance + emp.performance_score,
                 employees |-> Append(g.employees, emp)])

RECURSIVE AggregateDepartments(_, _, _, _)
AggregateDepartments(d, emps, lo, hi) ==
    IF Len(d) >= 0 /\ lo > hi THEN d
    ELSE IF lo = hi THEN AddToGroup(d, emps[lo])
    ELSE AggregateDepartments(
             AggregateDepartments(d, emps, lo, (lo + hi) \div 2),
             emps, ((lo + hi) \div 2) + 1, hi)

\* the second loop: the averages.  avg_salary is the double total / count;
\* avg_performance is held as the exact fraction of the score sum in
\* tenths (the binary rounding of the score sum is not represented)
WithAverages(g) ==
    [count |-> g.count, total_salary |-> g.total_salary,
     total_performance |-> g.total_performance, employees |-> g.employees,
     avg_salary |-> FloatDiv(g.total_salary, g.count),
     avg_performance |-> [num |-> g.total_performance, den |-> 10 * g.count]]

get_department_statistics(emps) ==
    LET d == AggregateDepartments(<<>>, emps, 1, Len(emps))
    IN  [j \in 1..Len(d) |-> [key |-> d[j].key, value |-> WithAverages(d[j].value)]]

----------------------------------------------------------------------------
(* generate_report: the values each section of the report shows.  The     *)
(* report is held as a record of its sections, each a sequence of lines,  *)
(* and a line as a record of the values formatted into it.                *)

\* the bar character (U+2588 in the program)
BLOCK == "#"

EmptyLines ==
    [total |-> 0, departments |-> <<>>, top_performers |-> <<>>,
     salary_distribution |-> <<>>, overall |-> <<>>]

\* for dept, stats in sorted(dept_stats.items()): the keys are distinct, so
\* the items are ordered by department name
DepartmentLines(emps) ==
    LET d   == get_department_statistics(emps)
        dec == [j \in 1..Len(d) |->
                  <<Cardinality({x \in 1..Len(d) : StrLess(d[x].key, d[j].key)}),
                    d[j]>>]
        srt == PySorted(dec, FALSE)
    IN  [j \in 1..Len(srt) |->
           [dept |-> srt[j].key, count |-> srt[j].value.count,
            avg_salary |-> srt[j].value.avg_salary,
            avg_performance |-> srt[j].value.avg_performance]]

\* for rank, emp in enumerate(self.get_top_performers(10), 1)
TopPerformerLines(emps) ==
    LET tp == get_top_performers(emps, 10)
    IN  [j \in 1..Len(tp) |->
           [rank |-> j, name |-> tp[j].name, department |-> tp[j].department,
            performance_score |-> tp[j].performance_score]]

\* one line of the salary distribution; total > 0
DistributionLineFullBar(item, total) ==
    LET percentage == FloatMulInt(FloatDiv(item.value, total), 100)
    IN  [range_name |-> item.key, count |-> item.value,
         percentage |-> percentage, shown |-> FloatTenths(percentage),
         bar |-> Repeat(BLOCK, FloatTrunc(percentage))]

DistributionLine(item, total) ==
    LET percentage == FloatMulInt(FloatDiv(item.value, total), 100)
    IN  [range_name |-> item.key, count |-> item.value,
         percentage |-> percentage, shown |-> FloatTenths(percentage),
         bar |-> Repeat(BLOCK, FloatTrunc(FloatHalf(percentage)))]

DistributionLines(emps) ==
    LET dist == get_salary_range_distribution(emps)
    IN  [j \in 1..Len(dist) |-> DistributionLine(dist[j], Len(emps))]

\* sorted(all_salaries)
SortedSalaries(emps) ==
    PySorted([j \in 1..Len(emps) |-> <<emps[j].salary, emps[j].salary>>], FALSE)

\* sorted(all_salaries)[len(all_salaries) // 2]
MedianLow(emps) == SortedSalaries(emps)[(Len(emps) + 1) \div 2]

MedianSalary(emps) == SortedSalaries(emps)[(Len(emps) \div 2) + 1]

\* the overall statistics; len(emps) > 0
OverallLine(emps) ==
    LET all_salaries     == [j \in 1..Len(emps) |-> emps[j].salary]
        all_performances == [j \in 1..Len(emps) |-> emps[j].performance_score]
    IN  [avg_salary |-> FloatDiv(SumSeq(all_salaries), Len(all_salaries)),
         median |-> MedianSalary(emps),
         min |-> CHOOSE x \in {all_salaries[j] : j \in 1..Len(emps)} :
                    \A j \in 1..Len(emps) : x <= all_salaries[j],
         max |-> CHOOSE x \in {all_salaries[j] : j \in 1..Len(emps)} :
                    \A j \in 1..Len(emps) : x >= all_salaries[j],
         avg_performance |-> [num |-> SumSeq(all_performances),
                              den |-> 10 * Len(all_performances)]]

----------------------------------------------------------------------------
(* FileManager: the csv module's writer and reader (dialect excel) *)

\* the writer quotes a field that holds the delimiter, the quote character
\* or a character of the line terminator
NeedsQuote(s) == \E j \in 1..Len(s) : s[j] \in {",", "\"", "\r", "\n"}

CsvField(s) ==
    IF NeedsQuote(s)
    THEN <<"\"">>
         \o Concat([j \in 1..Len(s) |->
                      IF s[j] = "\"" THEN <<"\"", "\"">> ELSE <<s[j]>>])
         \o <<"\"">>
    ELSE s

\* writer.writerow: the fields joined by "," and ended by "\r\n"
CsvRow(fields) ==
    Concat([j \in 1..Len(fields) |->
              (IF j = 1 THEN <<>> ELSE <<",">>) \o CsvField(fields[j])])
    \o <<"\r", "\n">>

\* DictWriter.writerow(emp.to_dict()): the values in fieldnames order, a
\* number written by str()
RowOfDict(d) ==
    [j \in 1..Len(fieldnames) |->
        IF j = 4 THEN StrOfInt(DictGet(d, fieldnames[j]))
        ELSE IF j = 6 THEN StrOfTenths(DictGet(d, fieldnames[j]))
        ELSE DictGet(d, fieldnames[j])]

\* what save_to_csv writes: the header and one row per employee
CsvText(emps) ==
    CsvRow(fieldnames)
    \o Concat([j \in 1..Len(emps) |-> CsvRow(RowOfDict(to_dict(emps[j])))])

\* file.readline() on a file opened without newline='': the line ends at
\* the first "\n", "\r" or "\r\n", which is handed over as "\n"
ReadLine(text) ==
    LET isEnd(j) == text[j] \in {"\r", "\n"}
    IN  IF \A j \in 1..Len(text) : ~isEnd(j)
        THEN [line |-> text, rest |-> <<>>]
        ELSE LET j == CHOOSE x \in 1..Len(text) :
                          isEnd(x) /\ \A y \in 1..(x - 1) : ~isEnd(y)
                 k == IF text[j] = "\r" /\ j < Len(text) /\ text[j + 1] = "\n"
                      THEN j + 1 ELSE j
             IN  [line |-> SubSeq(text, 1, j - 1) \o <<"\n">>,
                  rest |-> SubSeq(text, k + 1, Len(text))]

\* the reader's state machine; c is a character or "EOL" (end of a line)
SaveField(st) == [st EXCEPT !.fields = Append(@, st.field), !.field = <<>>]

AddChar(st, c) == [st EXCEPT !.field = Append(@, c)]

ParseChar(st, c) ==
    LET nl  == c \in {"\n", "\r"}
        eol == c = "EOL"
        s0  == IF st.state = "START_RECORD" /\ ~eol /\ ~nl
               THEN [st EXCEPT !.state = "START_FIELD"] ELSE st
        end == IF eol THEN "START_RECORD" ELSE "EAT_CRNL"
    IN  CASE s0.state = "START_RECORD" ->
                IF eol THEN s0 ELSE [s0 EXCEPT !.state = "EAT_CRNL"]
          [] s0.state = "START_FIELD" ->
                IF nl \/ eol THEN [SaveField(s0) EXCEPT !.state = end]
                ELSE IF c = "\"" THEN [s0 EXCEPT !.state = "IN_QUOTED_FIELD"]
                ELSE IF c = "," THEN SaveField(s0)
                ELSE [AddChar(s0, c) EXCEPT !.state = "IN_FIELD"]
          [] s0.state = "IN_FIELD" ->
                IF nl \/ eol THEN [SaveField(s0) EXCEPT !.state = end]
                ELSE IF c = "," THEN [SaveField(s0) EXCEPT !.state = "START_FIELD"]
                ELSE AddChar(s0, c)
          [] s0.state = "IN_QUOTED_FIELD" ->
                IF eol THEN s0
                ELSE IF c = "\"" THEN [s0 EXCEPT !.state = "QUOTE_IN_QUOTED_FIELD"]
                ELSE AddChar(s0, c)
          [] s0.state = "QUOTE_IN_QUOTED_FIELD" ->
                IF c = "\"" THEN [AddChar(s0, c) EXCEPT !.state = "IN_QUOTED_FIELD"]
                ELSE IF c = "," THEN [SaveField(s0) EXCEPT !.state = "START_FIELD"]
                ELSE IF nl \/ eol THEN [SaveField(s0) EXCEPT !.state = end]
                ELSE [AddChar(s0, c) EXCEPT !.state = "IN_FIELD"]
          [] s0.state = "EAT_CRNL" ->
                IF nl THEN s0
                ELSE IF eol THEN [s0 EXCEPT !.state = "START_RECORD"]
                ELSE [s0 EXCEPT !.state = "ERROR"]
          [] OTHER -> s0

ParseReset == [state |-> "START_RECORD", field |-> <<>>, fields |-> <<>>]

\* the characters line[lo..hi] fed to the state machine
RECURSIVE FeedChars(_, _, _, _)
FeedChars(st, line, lo, hi) ==
    IF st.state = "ERROR" \/ lo > hi THEN st
    ELSE IF lo = hi THEN ParseChar(st, line[lo])
    ELSE FeedChars(FeedChars(st, line, lo, (lo + hi) \div 2),
                   line, ((lo + hi) \div 2) + 1, hi)

\* next(reader): feeds lines of the file to the state machine until a
\* record is complete.  status is "row", "exhausted" (StopIteration) or
\* "error" (csv.Error); rest is the unread text.
RECURSIVE ReadRecord(_, _)
ReadRecord(st, text) ==
    IF text = <<>>
    THEN IF st.state = "IN_QUOTED_FIELD" \/ st.field # <<>>
         THEN [status |-> "row", row |-> Append(st.fields, st.field),
               rest |-> <<>>]
         ELSE [status |-> "exhausted", row |-> <<>>, rest |-> <<>>]
    ELSE LET ln == ReadLine(text)
             s1 == ParseChar(FeedChars(st, ln.line, 1, Len(ln.line)), "EOL")
         IN  IF s1.state = "ERROR"
             THEN [status |-> "error", row |-> <<>>, rest |-> ln.rest]
             ELSE IF s1.state = "START_RECORD"
             THEN [status |-> "row", row |-> s1.fields, rest |-> ln.rest]
             ELSE ReadRecord(s1, ln.rest)

ReaderNext(text) == ReadRecord(ParseReset, text)

\* DictReader.__next__ skips the rows that are empty lists
RECURSIVE DictReaderNext(_)
DictReaderNext(t) ==
    LET r == ReaderNext(t)
    IN  IF r.status = "row" /\ r.row = <<>> THEN DictReaderNext(r.rest) ELSE r

\* dict(zip(fieldnames, row)), the missing fields filled with None (a row
\* longer than the header puts the surplus under the key None)
RECURSIVE ZipDict(_, _, _)
ZipDict(names, row, k) ==
    IF k = 0 THEN <<>>
    ELSE DictSet(ZipDict(names, row, k - 1), names[k],
                 IF k <= Len(row) THEN row[k] ELSE PyNone)

DictOfRow(names, row) ==
    LET d == ZipDict(names, row, Len(names))
    IN  IF Len(row) > Len(names)
        THEN DictSet(d, PyNone, SubSeq(row, Len(names) + 1, Len(row)))
        ELSE d

\* Employee(emp_id=row['emp_id'], ..., salary=float(row['salary']), ...):
\* the arguments are evaluated in order; ok with the employee, or the
\* exception raised.  A salary is an integer in the model.
FloatOfField(row, key) ==
    IF ~DictHas(row, key) THEN [ok |-> FALSE, error |-> "KeyError"]
    ELSE IF DictGet(row, key) = PyNone THEN [ok |-> FALSE, error |-> "TypeError"]
    ELSE IF ~ParseFloat(DictGet(row, key)).ok
         THEN [ok |-> FALSE, error |-> "ValueError"]
    ELSE [ok |-> TRUE, error |-> "none"]

EmployeeOfRow(row) ==
    LET has(j) == DictHas(row, fieldnames[j])
        get(j) == DictGet(row, fieldnames[j])
        fail(e) == [ok |-> FALSE, error |-> e]
    IN  IF ~has(1) \/ ~has(2) \/ ~has(3) THEN fail("KeyError")
        ELSE IF ~FloatOfField(row, fieldnames[4]).ok
             THEN fail(FloatOfField(row, fieldnames[4]).error)
        ELSE IF ~has(5) THEN fail("KeyError")
        ELSE IF ~FloatOfField(row, fieldnames[6]).ok
             THEN fail(FloatOfField(row, fieldnames[6]).error)
        ELSE [ok |-> TRUE,
              employee |->
                  Employee(get(1), get(2), get(3),
                           ParseFloat(get(4)).tenths \div 10,
                           get(5), ParseFloat(get(6)).tenths)]

----------------------------------------------------------------------------
(* EmployeeDataGenerator *)

\* the first entries of FIRST_NAMES and LAST_NAMES
FIRST_NAMES == <<<<"A", "h", "m", "e", "d">>, <<"F", "a", "t", "i", "m", "a">>, <<"M", "o", "h", "a", "m", "m", "a", "d">>>>

LAST_NAMES == <<<<"K", "h", "a", "n">>, <<"A", "h", "m", "e", "d">>, <<"R", "a", "h", "m", "a", "n">>>>

\* what one loop iteration can draw from the random source and the clock:
\* a sample of the choices, and the two ends of the salary variation, of
\* the joining date window and of the score range
RandomDraws ==
    {[first_name |-> FIRST_NAMES[1], last_name |-> LAST_NAMES[1],
      department |-> DEPARTMENTS[1], variation |-> 0 - 10000,
      joining_date |-> <<"2", "0", "2", "6", "-", "0", "1", "-", "1", "5">>, performance_score |-> 50],
     [first_name |-> FIRST_NAMES[2], last_name |-> LAST_NAMES[2],
      department |-> DEPARTMENTS[4], variation |-> 30000,
      joining_date |-> <<"2", "0", "2", "1", "-", "0", "1", "-", "1", "6">>, performance_score |-> 100]}

\* emp_id = f"EMP{i:04d}"
EmpIdUnpadded(k) == <<"E", "M", "P">> \o StrOfInt(k)

EmpId(k) == <<"E", "M", "P">> \o Format04d(k)

\* the body of the loop for one index and one draw
GeneratedEmployee(k, w) ==
    Employee(EmpId(k),
             w.first_name \o <<" ">> \o w.last_name,
             w.department,
             Max(DictGet(base_salaries, w.department) + w.variation, 30000),
             w.joining_date,
             w.performance_score)

----------------------------------------------------------------------------
(* State *)

NoError == [type |-> "none", at |-> "none"]

NoFile == [exists |-> FALSE, text |-> <<>>]

NoReportFile == [exists |-> FALSE, content |-> <<>>]

NoReader == [rest |-> <<>>, fieldnames |-> PyNone]

\* the state in which entry point en starts at position p
Start(en, p, emps, cnt, k, file) ==
    /\ entry = en
    /\ pc = p
    /\ employees = emps
    /\ num_employees = cnt
    /\ i = 1
    /\ n = k
    /\ top = <<>>
    /\ ranges = <<>>
    /\ dept_data = <<>>
    /\ lines = EmptyLines
    /\ report = <<>>
    /\ error = NoError
    /\ csv_file = file
    /\ report_file = NoReportFile
    /\ reader = NoReader
    /\ loaded = <<>>
    /\ console = <<>>

\* an uncaught exception ends the entry point
Raise(type) ==
    /\ pc' = "raised"
    /\ error' = [type |-> type, at |-> pc]

\* where control goes when the stage at pc is done: main runs its stages
\* in sequence, the round trip loads what it saved, a single call returns
After(stage) ==
    IF entry = "main"
    THEN CASE stage = "gen_loop"       -> "save_csv"
           [] stage = "save_csv"       -> "analyzer_init"
           [] stage = "report_overall" -> "save_report"
           [] stage = "save_report"    -> "print_report"
           [] OTHER                    -> "returned"
    ELSE IF entry = "round_trip" /\ stage = "save_csv" THEN "load_open"
    ELSE "returned"

----------------------------------------------------------------------------
(* Actions: EmployeeDataGenerator.generate_employees *)

\* one iteration of for i in range(1, num_employees + 1)
GenStep ==
    /\ pc = "gen_loop"
    /\ i <= num_employees
    /\ \E w \in RandomDraws :
          employees' = Append(employees, GeneratedEmployee(i, w))
    /\ i' = i + 1
    /\ UNCHANGED <<entry, pc, num_employees, n, top, ranges, dept_data, lines,
                   report, error, csv_file, report_file, reader, loaded,
                   console>>

\* return employees (in main: the messages that follow the call)
GenReturn ==
    /\ pc = "gen_loop"
    /\ i > num_employees
    /\ pc' = After("gen_loop")
    /\ console' = IF entry = "main"
                  THEN console \o <<"generated", "step 2">> ELSE console
    /\ UNCHANGED <<entry, employees, num_employees, i, n, top, ranges,
                   dept_data, lines, report, error, csv_file, report_file,
                   reader, loaded>>

----------------------------------------------------------------------------
(* Actions: EmployeeAnalyzer *)

GetTopPerformers ==
    /\ entry = "get_top_performers"
    /\ pc = "call"
    /\ top' = get_top_performers(employees, n)
    /\ pc' = "returned"
    /\ UNCHANGED <<entry, employees, num_employees, i, n, ranges, dept_data,
                   lines, report, error, csv_file, report_file, reader,
                   loaded, console>>

GetSalaryRangeDistribution ==
    /\ entry = "get_salary_range_distribution"
    /\ pc = "call"
    /\ ranges' = get_salary_range_distribution(employees)
    /\ pc' = "returned"
    /\ UNCHANGED <<entry, employees, num_employees, i, n, top, dept_data,
                   lines, report, error, csv_file, report_file, reader,
                   loaded, console>>

GetDepartmentStatistics ==
    /\ entry = "get_department_statistics"
    /\ pc = "call"
    /\ dept_data' = get_department_statistics(employees)
    /\ pc' = "returned"
    /\ UNCHANGED <<entry, employees, num_employees, i, n, top, ranges, lines,
                   report, error, csv_file, report_file, reader, loaded,
                   console>>

\* analyzer = EmployeeAnalyzer(employees), then the start of generate_report
AnalyzerInit ==
    /\ pc = "analyzer_init"
    /\ pc' = "report_departments"
    /\ console' = Append(console, "step 3")
    /\ UNCHANGED <<entry, employees, num_employees, i, n, top, ranges,
                   dept_data, lines, report, error, csv_file, report_file,
                   reader, loaded>>

\* generate_report: header and department statistics
ReportDepartments ==
    /\ pc = "report_departments"
    /\ lines' = [EmptyLines EXCEPT !.total = Len(employees),
                                   !.departments = DepartmentLines(employees)]
    /\ pc' = "report_top"
    /\ UNCHANGED <<entry, employees, num_employees, i, n, top, ranges,
                   dept_data, report, error, csv_file, report_file, reader,
                   loaded, console>>

\* generate_report: top 10 performers
ReportTopPerformers ==
    /\ pc = "report_top"
    /\ lines' = [lines EXCEPT !.top_performers = TopPerformerLines(employees)]
    /\ pc' = "report_distribution"
    /\ UNCHANGED <<entry, employees, num_employees, i, n, top, ranges,
                   dept_data, report, error, csv_file, report_file, reader,
                   loaded, console>>

\* generate_report: salary distribution; count / len(self.employees)
\* raises ZeroDivisionError for the first range when there is no employee
ReportSalaryDistributionGuarded ==
    /\ pc = "report_distribution"
    /\ lines' = [lines EXCEPT
                   !.salary_distribution =
                       IF Len(employees) = 0 THEN <<>>
                       ELSE DistributionLines(employees)]
    /\ pc' = "report_overall"
    /\ UNCHANGED <<entry, employees, num_employees, i, n, top, ranges,
                   dept_data, report, error, csv_file, report_file, reader,
                   loaded, console>>

ReportSalaryDistribution ==
    /\ pc = "report_distribution"
    /\ IF Len(employees) = 0
       THEN /\ Raise("ZeroDivisionError")
            /\ UNCHANGED lines
       ELSE /\ lines' = [lines EXCEPT
                           !.salary_distribution = DistributionLines(employees)]
            /\ pc' = "report_overall"
            /\ UNCHANGED error
    /\ UNCHANGED <<entry, employees, num_employees, i, n, top, ranges,
                   dept_data, report, csv_file, report_file, reader, loaded,
                   console>>

\* generate_report: overall statistics and the return of the report
ReportOverall ==
    /\ pc = "report_overall"
    /\ IF Len(employees) = 0
       THEN /\ Raise("ZeroDivisionError")
            /\ UNCHANGED <<lines, report, console>>
       ELSE /\ lines' = [lines EXCEPT !.overall = <<OverallLine(employees)>>]
            /\ report' = <<lines'>>
            /\ pc' = After("report_overall")
            /\ console' = IF entry = "main"
                          THEN console \o <<"analysis completed", "step 4">>
                          ELSE console
            /\ UNCHANGED error
    /\ UNCHANGED <<entry, employees, num_employees, i, n, top, ranges,
                   dept_data, csv_file, report_file, reader, loaded>>

----------------------------------------------------------------------------
(* Actions: FileManager *)

\* save_to_csv writes the file and prints its message
SaveToCsv ==
    /\ pc = "save_csv"
    /\ csv_file' = [exists |-> TRUE, text |-> CsvText(employees)]
    /\ console' = Append(console, "csv saved")
    /\ pc' = After("save_csv")
    /\ UNCHANGED <<entry, employees, num_employees, i, n, top, ranges,
                   dept_data, lines, report, error, report_file, reader,
                   loaded>>

\* save_to_csv fails: open() raises and leaves the file alone, or a write
\* raises and leaves a truncated file; nothing catches the exception
SaveToCsvFailCaught ==
    /\ pc = "save_csv"
    /\ \/ csv_file' = csv_file
       \/ csv_file' = [exists |-> TRUE, text |-> CsvRow(fieldnames)]
    /\ pc' = After("save_csv")
    /\ UNCHANGED <<entry, employees, num_employees, i, n, top, ranges,
                   dept_data, lines, report, error, report_file, reader,
                   loaded, console>>

SaveToCsvFail ==
    /\ pc = "save_csv"
    /\ \/ csv_file' = csv_file
       \/ csv_file' = [exists |-> TRUE, text |-> CsvRow(fieldnames)]
    /\ Raise("OSError")
    /\ UNCHANGED <<entry, employees, num_employees, i, n, top, ranges,
                   dept_data, lines, report, report_file, reader, loaded,
                   console>>

\* save_report writes the report text and prints its message
SaveReport ==
    /\ pc = "save_report"
    /\ report_file' = [exists |-> TRUE, content |-> report]
    /\ console' = console \o <<"report saved", "step 5">>
    /\ pc' = After("save_report")
    /\ UNCHANGED <<entry, employees, num_employees, i, n, top, ranges,
                   dept_data, lines, report, error, csv_file, reader, loaded>>

SaveReportFail ==
    /\ pc = "save_report"
    /\ \/ report_file' = report_file
       \/ report_file' = [exists |-> TRUE, content |-> <<>>]
    /\ Raise("OSError")
    /\ UNCHANGED <<entry, employees, num_employees, i, n, top, ranges,
                   dept_data, lines, report, csv_file, reader, loaded,
                   console>>

\* load_from_csv: open the file and make the DictReader, which takes the
\* first record as its fieldnames
LoadOpen ==
    /\ pc = "load_open"
    /\ IF ~csv_file.exists
       THEN /\ Raise("FileNotFoundError")
            /\ UNCHANGED reader
       ELSE LET h == ReaderNext(csv_file.text)
            IN  IF h.status = "error"
                THEN /\ Raise("csv.Error")
                     /\ UNCHANGED reader
                ELSE /\ reader' =
                          IF h.status = "row"
                          THEN [rest |-> h.rest, fieldnames |-> h.row]
                          ELSE [rest |-> <<>>, fieldnames |-> PyNone]
                     /\ pc' = "load_rows"
                     /\ UNCHANGED error
    /\ UNCHANGED <<entry, employees, num_employees, i, n, top, ranges,
                   dept_data, lines, report, csv_file, report_file, loaded,
                   console>>

\* load_from_csv: one iteration of for row in reader, or the end of the loop
LoadRow ==
    /\ pc = "load_rows"
    /\ LET r == DictReaderNext(reader.rest)
           e == EmployeeOfRow(DictOfRow(reader.fieldnames, r.row))
       IN  IF r.status = "exhausted"
           THEN /\ pc' = "returned"
                /\ console' = Append(console, "loaded")
                /\ UNCHANGED <<reader, loaded, error>>
           ELSE IF r.status = "error"
           THEN /\ Raise("csv.Error")
                /\ UNCHANGED <<reader, loaded, console>>
           ELSE IF e.ok
           THEN /\ loaded' = Append(loaded, e.employee)
                /\ reader' = [reader EXCEPT !.rest = r.rest]
                /\ UNCHANGED <<pc, error, console>>
           ELSE /\ Raise(e.error)
                /\ UNCHANGED <<reader, loaded, console>>
    /\ UNCHANGED <<entry, employees, num_employees, i, n, top, ranges,
                   dept_data, lines, report, csv_file, report_file>>

----------------------------------------------------------------------------
(* Actions: main *)

\* the banner, then employees = generate_employees(100)
MainStart ==
    /\ entry = "main"
    /\ pc = "main_start"
    /\ console' = <<"banner", "step 1">>
    /\ num_employees' = MainCount
    /\ i' = 1
    /\ employees' = <<>>
    /\ pc' = "gen_loop"
    /\ UNCHANGED <<entry, n, top, ranges, dept_data, lines, report, error,
                   csv_file, report_file, reader, loaded>>

\* print(report) and the closing messages
PrintReport ==
    /\ pc = "print_report"
    /\ console' = console \o <<"REPORT", "complete">>
    /\ pc' = After("print_report")
    /\ UNCHANGED <<entry, employees, num_employees, i, n, top, ranges,
                   dept_data, lines, report, error, csv_file, report_file,
                   reader, loaded>>

\* print(report) fails (the output stream is closed or cannot encode it)
PrintReportFail ==
    /\ pc = "print_report"
    /\ Raise("OSError")
    /\ UNCHANGED <<entry, employees, num_employees, i, n, top, ranges,
                   dept_data, lines, report, csv_file, report_file, reader,
                   loaded, console>>

----------------------------------------------------------------------------
(* Inputs *)

SampleName == FIRST_NAMES[1] \o <<" ">> \o LAST_NAMES[1]

SampleDate == <<"2", "0", "2", "6", "-", "0", "1", "-", "1", "5">>

\* performance scores, in tenths
Scores == {50, 75, 100}

\* every threshold, and a salary below, between and above them
DistSalaries == {40000, 50000, 60000, 70000, 90000, 100000, 120000}

\* a salary of each range, three of them the lower threshold of theirs
ReportSalaries == {40000, 50000, 70000, 90000, 120000}

\* the characters of the names in the CSV round trip
CsvChars == {"a", ",", "\"", "\r", "\n"}

\* employees numbered by position, with the given field values
EmployeesWith(names, depts, salaries, scores) ==
    [j \in 1..Len(names) |->
        Employee(EmpId(j), names[j], depts[j], salaries[j], SampleDate,
                 scores[j])]

PatternDept(j) == DEPARTMENTS[((j - 1) % Len(DEPARTMENTS)) + 1]

PatternScore(j) == 50 + 25 * (j % 3)

PatternSalary(j) == 45000 + 15000 * (j % 5)

\* a line of an existing file: the fields joined by "," and ended by "\n"
FileLine(fields) ==
    LET row == CsvRow(fields) IN SubSeq(row, 1, Len(row) - 2) \o <<"\n">>

GoodFields ==
    <<EmpId(1), <<"a">>, S_HR, StrOfInt(50000), SampleDate, StrOfTenths(75)>>

\* existing files for load_from_csv: none, an empty one, only the header, a
\* salary that is no number, a short row, a blank line and no final
\* newline, a header without the salary column, a row with a surplus field
SampleFiles ==
    {NoFile,
     [exists |-> TRUE, text |-> <<>>],
     [exists |-> TRUE, text |-> CsvRow(fieldnames)],
     [exists |-> TRUE,
      text |-> CsvRow(fieldnames)
               \o CsvRow([GoodFields EXCEPT ![4] = <<"a", "b", "c">>])],
     [exists |-> TRUE,
      text |-> FileLine(fieldnames) \o FileLine(SubSeq(GoodFields, 1, 2))],
     [exists |-> TRUE,
      text |-> FileLine(fieldnames) \o <<"\n">>
               \o SubSeq(FileLine(GoodFields), 1, Len(FileLine(GoodFields)) - 1)],
     [exists |-> TRUE,
      text |-> FileLine(SubSeq(fieldnames, 1, 3))
               \o FileLine(SubSeq(GoodFields, 1, 3))],
     [exists |-> TRUE,
      text |-> FileLine(fieldnames) \o FileLine(Append(GoodFields, <<"x">>))]}

----------------------------------------------------------------------------
(* Specifications *)

\* get_top_performers(n) on lists that differ in their scores
InitTop ==
    \E sc \in SeqsUpTo(Scores, MaxEmp), k \in (0 - 1)..(MaxEmp + 1) :
        Start("get_top_performers", "call",
              EmployeesWith([j \in 1..Len(sc) |-> SampleName],
                            [j \in 1..Len(sc) |-> DEPARTMENTS[1]],
                            [j \in 1..Len(sc) |-> PatternSalary(j)], sc),
              0, k, NoFile)

NextTop == GetTopPerformers

SpecTop == InitTop /\ [][NextTop]_vars

\* get_salary_range_distribution() on lists that differ in their salaries
InitDist ==
    \E sal \in SeqsUpTo(DistSalaries, MaxEmp) :
        Start("get_salary_range_distribution", "call",
              EmployeesWith([j \in 1..Len(sal) |-> SampleName],
                            [j \in 1..Len(sal) |-> PatternDept(j)], sal,
                            [j \in 1..Len(sal) |-> PatternScore(j)]),
              0, 0, NoFile)

NextDist == GetSalaryRangeDistribution

SpecDist == InitDist /\ [][NextDist]_vars

\* get_department_statistics() on lists that differ in their departments
InitDept ==
    \E dp \in SeqsUpTo({DEPARTMENTS[j] : j \in 1..Len(DEPARTMENTS)}, MaxEmp) :
        Start("get_department_statistics", "call",
              EmployeesWith([j \in 1..Len(dp) |-> SampleName], dp,
                            [j \in 1..Len(dp) |-> PatternSalary(j)],
                            [j \in 1..Len(dp) |-> PatternScore(j)]),
              0, 0, NoFile)

NextDept == GetDepartmentStatistics

SpecDept == InitDept /\ [][NextDept]_vars

\* generate_report() on lists that differ in their salaries, and on lists
\* of WideTotal employees split between two salary ranges
WideSalaries(c) == [j \in 1..WideTotal |-> IF j <= c THEN 40000 ELSE 60000]

InitReport ==
    \E sal \in SeqsUpTo(ReportSalaries, MaxEmp)
               \cup {WideSalaries(c) : c \in 0..WideTotal} :
        Start("generate_report", "report_departments",
              EmployeesWith([j \in 1..Len(sal) |-> SampleName],
                            [j \in 1..Len(sal) |-> PatternDept(j)], sal,
                            [j \in 1..Len(sal) |-> PatternScore(j)]),
              0, 0, NoFile)

NextReport ==
    \/ ReportDepartments
    \/ ReportTopPerformers
    \/ ReportSalaryDistribution
    \/ ReportOverall

SpecReport == InitReport /\ [][NextReport]_vars

\* save_to_csv then load_from_csv on lists that differ in their names, and
\* load_from_csv on existing files
InitCsv ==
    \/ \E nm \in SeqsUpTo(SeqsUpTo(CsvChars, MaxStr), MaxCsvEmp) :
          Start("round_trip", "save_csv",
                EmployeesWith(nm, [j \in 1..Len(nm) |-> PatternDept(j)],
                              [j \in 1..Len(nm) |-> PatternSalary(j)],
                              [j \in 1..Len(nm) |-> PatternScore(j)]),
                0, 0, NoFile)
    \/ \E f \in SampleFiles :
          Start("load_from_csv", "load_open", <<>>, 0, 0, f)

NextCsv ==
    \/ SaveToCsv
    \/ SaveToCsvFail
    \/ LoadOpen
    \/ LoadRow

SpecCsv == InitCsv /\ [][NextCsv]_vars

\* generate_employees(num_employees)
InitGen ==
    \E cnt \in (0 - 1)..MaxCount :
        Start("generate_employees", "gen_loop", <<>>, cnt, 0, NoFile)

NextGen ==
    \/ GenStep
    \/ GenReturn

SpecGen == InitGen /\ [][NextGen]_vars

\* main()
Init == Start("main", "main_start", <<>>, 0, 0, NoFile)

Next ==
    \/ MainStart
    \/ GenStep
    \/ GenReturn
    \/ SaveToCsv
    \/ SaveToCsvFail
    \/ AnalyzerInit
    \/ ReportDepartments
    \/ ReportTopPerformers
    \/ ReportSalaryDistribution
    \/ ReportOverall
    \/ SaveReport
    \/ SaveReportFail
    \/ PrintReport
    \/ PrintReportFail

Spec == Init /\ [][Next]_vars

----------------------------------------------------------------------------
(* Properties *)

\* the employees in the order of the list, their scores and salaries
ScoreAt(j) == employees[j].performance_score

SalaryAt(j) == employees[j].salary

\* a comes before b in the ranking: a higher score, or the same score and an
\* earlier place in the list
RanksBefore(a, b) ==
    ScoreAt(a) > ScoreAt(b) \/ (ScoreAt(a) = ScoreAt(b) /\ a < b)

RankOf(a) == 1 + Cardinality({b \in 1..Len(employees) : RanksBefore(b, a)})

\* C1: for n >= 0, get_top_performers(n) returns min(n, len) employees: the
\* first n of the list sorted by performance_score descending, employees
\* with equal scores in their order in the list; none for n = 0 and all of
\* them for n > len.
C1_TopPerformers ==
    (entry = "get_top_performers" /\ pc = "returned" /\ n >= 0) =>
        /\ Len(top) = Min(n, Len(employees))
        /\ \A a \in 1..Len(employees) :
              RankOf(a) <= Len(top) => top[RankOf(a)] = employees[a]
        /\ \A k \in 1..(Len(top) - 1) :
              top[k].performance_score >= top[k + 1].performance_score
        /\ (n = 0 => top = <<>>)
        /\ (n > Len(employees) => Len(top) = Len(employees))

\* a call that cuts the ranking inside a tie: scores 7.5, 10.0, 7.5 and n = 2
C1_Witness ==
    /\ entry = "get_top_performers"
    /\ pc = "returned"
    /\ Len(employees) = 3
    /\ n = 2
    /\ ScoreAt(1) = 75 /\ ScoreAt(2) = 100 /\ ScoreAt(3) = 75
    /\ top = <<employees[2], employees[1]>>

\* the label of the range a salary belongs to, by the half-open thresholds
LabelIndex(salary) ==
    IF salary < 50000 THEN 1
    ELSE IF salary < 70000 THEN 2
    ELSE IF salary < 90000 THEN 3
    ELSE IF salary < 100000 THEN 4
    ELSE 5

\* C2: get_salary_range_distribution() returns the five labels 0-50k,
\* 50k-70k, 70k-90k, 90k-100k, 100k+ in that order; each employee is counted
\* in the one bucket its salary selects by the thresholds < 50000, < 70000,
\* < 90000, < 100000, else (a salary equal to a threshold in the higher
\* bucket); the five counts sum to the number of employees.
C2_SalaryRanges ==
    (entry = "get_salary_range_distribution" /\ pc = "returned") =>
        /\ Len(ranges) = 5
        /\ ranges[1].key = <<"0", "-", "5", "0", "k">>
        /\ ranges[2].key = <<"5", "0", "k", "-", "7", "0", "k">>
        /\ ranges[3].key = <<"7", "0", "k", "-", "9", "0", "k">>
        /\ ranges[4].key = <<"9", "0", "k", "-", "1", "0", "0", "k">>
        /\ ranges[5].key = <<"1", "0", "0", "k", "+">>
        /\ \A b \in 1..5 :
              ranges[b].value =
                  Cardinality({j \in 1..Len(employees) :
                                  LabelIndex(SalaryAt(j)) = b})
        /\ SumSeq([b \in 1..5 |-> ranges[b].value]) = Len(employees)

\* four employees, three of them on thresholds: 50000, 70000, 100000, 40000
C2_Witness ==
    /\ entry = "get_salary_range_distribution"
    /\ pc = "returned"
    /\ Len(employees) = 4
    /\ SalaryAt(1) = 50000 /\ SalaryAt(2) = 70000
    /\ SalaryAt(3) = 100000 /\ SalaryAt(4) = 40000
    /\ [b \in 1..5 |-> ranges[b].value] = <<1, 1, 1, 0, 1>>

\* the employees of a department, in the order of the list
MembersOf(dept) == SelectSeq(employees, LAMBDA e : e.department = dept)

\* C3: get_department_statistics() returns one group per department that
\* occurs in the list and no other; a group's count is at least 1, is the
\* number of employees of that department and the length of its member
\* list, which holds them in the order of the list; the counts of the
\* groups sum to the number of employees.
C3_DepartmentGroups ==
    (entry = "get_department_statistics" /\ pc = "returned") =>
        /\ \A a, b \in 1..Len(dept_data) :
              dept_data[a].key = dept_data[b].key => a = b
        /\ {dept_data[a].key : a \in 1..Len(dept_data)}
               = {employees[j].department : j \in 1..Len(employees)}
        /\ \A a \in 1..Len(dept_data) :
              LET g == dept_data[a].value
              IN  /\ g.count >= 1
                  /\ g.count = Cardinality({j \in 1..Len(employees) :
                                  employees[j].department = dept_data[a].key})
                  /\ g.count = Len(g.employees)
                  /\ g.employees = MembersOf(dept_data[a].key)
        /\ SumSeq([a \in 1..Len(dept_data) |-> dept_data[a].value.count])
               = Len(employees)

\* two departments whose employees alternate in the list
C3_Witness ==
    /\ entry = "get_department_statistics"
    /\ pc = "returned"
    /\ Len(employees) = 4
    /\ employees[1].department = employees[3].department
    /\ employees[2].department = employees[4].department
    /\ employees[1].department # employees[2].department
    /\ Len(dept_data) = 2
    /\ dept_data[1].value.employees = <<employees[1], employees[3]>>
    /\ dept_data[2].value.employees = <<employees[2], employees[4]>>

\* the decimal digits of k in a field of four, zeros in front (k < 10000)
PadFour(k) ==
    [p \in 1..4 |-> DigitChars[((k \div (10 ^ (4 - p))) % 10) + 1]]

\* C5: for n >= 0, generate_employees(n) returns n records whose emp_id
\* are, in order, "EMP" and the index 1..n zero-padded to 4 digits; the
\* emp_id are pairwise distinct; n = 0 gives the empty list.
C5_GeneratedIds ==
    (entry = "generate_employees" /\ pc = "returned" /\ num_employees >= 0) =>
        /\ Len(employees) = num_employees
        /\ \A k \in 1..Len(employees) :
              employees[k].emp_id = <<"E", "M", "P">> \o PadFour(k)
        /\ \A a, b \in 1..Len(employees) :
              employees[a].emp_id = employees[b].emp_id => a = b
        /\ (num_employees = 0 => employees = <<>>)

\* a batch that reaches a two-digit index
C5_Witness ==
    /\ entry = "generate_employees"
    /\ pc = "returned"
    /\ num_employees = 10
    /\ Len(employees) = 10
    /\ employees[1].emp_id = <<"E", "M", "P", "0", "0", "0", "1">>
    /\ employees[10].emp_id = <<"E", "M", "P", "0", "0", "1", "0">>

\* the value at 0-based index k of the salaries sorted ascending: the salary
\* with at most k salaries below it and more than k not above it
SalaryAtSortedIndex(k) ==
    CHOOSE v \in {SalaryAt(j) : j \in 1..Len(employees)} :
        /\ Cardinality({j \in 1..Len(employees) : SalaryAt(j) < v}) <= k
        /\ Cardinality({j \in 1..Len(employees) : SalaryAt(j) <= v}) > k

\* C7: on a non-empty collection of total employees the median salary
\* generate_report() shows is the element at 0-based index floor(total / 2)
\* of the salaries sorted ascending, and the salary range it shows is the
\* minimum and the maximum of the salaries.
C7_MedianAndRange ==
    (entry = "generate_report" /\ pc = "returned" /\ Len(employees) > 0) =>
        /\ Len(lines.overall) = 1
        /\ lines.overall[1].median = SalaryAtSortedIndex(Len(employees) \div 2)
        /\ \E j \in 1..Len(employees) : lines.overall[1].min = SalaryAt(j)
        /\ \E j \in 1..Len(employees) : lines.overall[1].max = SalaryAt(j)
        /\ \A j \in 1..Len(employees) :
              lines.overall[1].min <= SalaryAt(j)
              /\ SalaryAt(j) <= lines.overall[1].max

\* the salaries 90000, 50000, 70000: median 70000, range 50000 to 90000
C7_Witness ==
    /\ entry = "generate_report"
    /\ pc = "returned"
    /\ Len(employees) = 3
    /\ SalaryAt(1) = 90000 /\ SalaryAt(2) = 50000 /\ SalaryAt(3) = 70000
    /\ lines.overall[1].median = 70000
    /\ lines.overall[1].min = 50000
    /\ lines.overall[1].max = 90000

\* the two middle elements of the sorted salaries of an even-sized collection
LowerMiddle == SalaryAtSortedIndex((Len(employees) \div 2) - 1)

UpperMiddle == SalaryAtSortedIndex(Len(employees) \div 2)

EvenReport ==
    /\ entry = "generate_report"
    /\ pc = "returned"
    /\ Len(employees) > 0
    /\ Len(employees) % 2 = 0

\* C8, as stated: for an even, non-zero number of employees the median
\* salary generate_report() shows is the smaller of the two middle elements
\* of the salaries sorted ascending.
C8_LowMedian ==
    EvenReport => lines.overall[1].median = LowerMiddle

\* C8, amended: for an even, non-zero number of employees the median salary
\* generate_report() shows is the larger of the two middle elements of the
\* salaries sorted ascending; when the two differ it is neither the smaller
\* one nor their average.
C8_UpperMedian ==
    EvenReport =>
        /\ lines.overall[1].median = UpperMiddle
        /\ LowerMiddle <= UpperMiddle
        /\ LowerMiddle < UpperMiddle =>
              /\ lines.overall[1].median # LowerMiddle
              /\ 2 * lines.overall[1].median # LowerMiddle + UpperMiddle

\* four salaries whose middle elements are 50000 and 70000: 70000 is shown
C8_Witness ==
    /\ EvenReport
    /\ Len(employees) = 4
    /\ LowerMiddle = 50000
    /\ UpperMiddle = 70000
    /\ lines.overall[1].median = 70000

\* C9: generate_report() on an empty collection returns no report: it
\* fails with a division by zero raised in the percentage computation of
\* the salary distribution, before the overall statistics are reached; on
\* a non-empty collection it returns a report and raises nothing.
C9_EmptyReportFails ==
    entry = "generate_report" =>
        /\ pc = "raised" =>
              /\ Len(employees) = 0
              /\ error = [type |-> "ZeroDivisionError",
                          at |-> "report_distribution"]
              /\ lines.salary_distribution = <<>>
              /\ lines.overall = <<>>
              /\ report = <<>>
        /\ Len(employees) = 0 =>
              /\ pc \in {"report_departments", "report_top",
                         "report_distribution", "raised"}
              /\ report = <<>>
        /\ Len(employees) > 0 =>
              /\ pc # "raised"
              /\ error = NoError
        /\ pc = "returned" =>
              /\ Len(employees) > 0
              /\ report = <<lines>>
              /\ Len(lines.salary_distribution) = 5
              /\ Len(lines.overall) = 1

\* the report of no employees has failed
C9_Witness ==
    /\ entry = "generate_report"
    /\ employees = <<>>
    /\ pc = "raised"
    /\ error.type = "ZeroDivisionError"
    /\ lines.departments = <<>>
    /\ lines.top_performers = <<>>

\* the lines of the salary distribution, once generate_report has made them
Bars == [b \in 1..Len(lines.salary_distribution) |->
            Len(lines.salary_distribution[b].bar)]

\* C10: the Salary Distribution section of generate_report() on a non-empty
\* collection lists the five buckets in their fixed order, each with
\* percentage = count / total * 100 (computed in double precision, as the
\* program does) and a bar of floor(percentage / 2) characters; every bar
\* has from 0 to 50 characters, the five bars together at most 50, and for
\* a single employee the bucket of that employee shows 100.0% and a bar of
\* 50 characters while the other four bars are empty.
C10_DistributionBars ==
    (entry = "generate_report" /\ lines.salary_distribution # <<>>) =>
        LET total == Len(employees)
            dist  == lines.salary_distribution
        IN  /\ total > 0
            /\ Len(dist) = 5
            /\ \A b \in 1..5 :
                  /\ dist[b].range_name = RANGE_LABELS[b]
                  /\ dist[b].count =
                        Cardinality({j \in 1..total :
                                        LabelIndex(SalaryAt(j)) = b})
                  /\ dist[b].percentage =
                        FloatMulInt(FloatDiv(dist[b].count, total), 100)
                  /\ dist[b].shown = FloatTenths(dist[b].percentage)
                  /\ Bars[b] = FloatTrunc(FloatHalf(dist[b].percentage))
                  /\ \A c \in 1..Bars[b] : dist[b].bar[c] = BLOCK
                  /\ Bars[b] >= 0 /\ Bars[b] <= 50
                  \* against the exact quotient: never above its floor, below
                  \* it by at most one and only where the quotient is whole
                  /\ Bars[b] <= (50 * dist[b].count) \div total
                  /\ Bars[b] >= ((50 * dist[b].count) \div total) - 1
                  /\ (50 * dist[b].count) % total # 0 =>
                        Bars[b] = (50 * dist[b].count) \div total
            /\ SumSeq(Bars) <= 50
            /\ total = 1 =>
                  \A b \in 1..5 :
                     IF b = LabelIndex(SalaryAt(1))
                     THEN dist[b].shown = 1000 /\ Bars[b] = 50
                     ELSE dist[b].shown = 0 /\ Bars[b] = 0

\* the report of one employee, whose salary of 70000 is in the third range
C10_Witness ==
    /\ entry = "generate_report"
    /\ pc = "returned"
    /\ Len(employees) = 1
    /\ SalaryAt(1) = 70000
    /\ lines.salary_distribution[3].shown = 1000
    /\ Bars = <<0, 0, 50, 0, 0>>

\* C4: saving a list with save_to_csv and loading the file with
\* load_from_csv gives a list of the same length and order whose records
\* equal the saved ones field for field.
C4_RoundTrip ==
    (entry = "round_trip" /\ pc = "returned") => loaded = employees

\* what main prints when every stage succeeds, in order
ExpectedConsole ==
    <<"banner", "step 1", "generated", "step 2", "csv saved", "step 3",
      "analysis completed", "step 4", "report saved", "step 5", "REPORT",
      "complete">>

\* the positions of main in the order of its stages: generate (1, 2), save
\* records (3), build analyzer (4), generate report (5 to 8), save report
\* (9), print report (10), done (11)
StageOrder ==
    <<"main_start", "gen_loop", "save_csv", "analyzer_init",
      "report_departments", "report_top", "report_distribution",
      "report_overall", "save_report", "print_report", "returned">>

StageIndex(p) == CHOOSE k \in 1..Len(StageOrder) : StageOrder[k] = p

\* what has been done implies that the stages before it were completed, and
\* a failure leaves the later stages undone
PipelineState ==
    entry = "main" =>
        /\ Len(console) <= Len(ExpectedConsole)
        /\ console = SubSeq(ExpectedConsole, 1, Len(console))
        /\ csv_file.exists =>
              /\ StageIndex(IF pc = "raised" THEN error.at ELSE pc) >= 3
              /\ Len(employees) = num_employees
        /\ lines # EmptyLines =>
              csv_file = [exists |-> TRUE, text |-> CsvText(employees)]
        /\ report_file.exists =>
              /\ report = <<lines>>
              /\ Len(lines.overall) = 1
        /\ (\E k \in 1..Len(console) : console[k] = "REPORT") =>
              report_file = [exists |-> TRUE, content |-> report]
        /\ pc = "raised" =>
              /\ error.at \in {"save_csv", "save_report", "print_report"}
              /\ error.at = "save_csv" =>
                    /\ console = SubSeq(ExpectedConsole, 1, 4)
                    /\ lines = EmptyLines
                    /\ report = <<>>
                    /\ ~report_file.exists
              /\ error.at = "save_report" =>
                    console = SubSeq(ExpectedConsole, 1, 8)
              /\ error.at = "print_report" =>
                    console = SubSeq(ExpectedConsole, 1, 10)

\* a step stays in its stage, moves to the next one or fails; nothing
\* follows a failure, and no file is written a second time
PipelineStep ==
    entry = "main" =>
        /\ pc # "raised"
        /\ pc # "returned"
        /\ \/ pc' = "raised"
           \/ StageIndex(pc') = StageIndex(pc)
           \/ StageIndex(pc') = StageIndex(pc) + 1
        /\ csv_file' # csv_file => (pc = "save_csv" /\ ~csv_file.exists)
        /\ report_file' # report_file =>
              (pc = "save_report" /\ ~report_file.exists)

\* C6: main runs its stages in the order generate, save records, build
\* analyzer, generate report, save report, print report, each one after the
\* one before it is complete; a stage that fails ends the run: no later
\* stage runs (after a failed save of the records no report file is written
\* and no report printed) and nothing is retried.
C6_Pipeline == [](PipelineState) /\ [][PipelineStep]_vars

\* the save of the report has failed: the records are saved, the report
\* exists, it is neither on disk in full nor printed
C6_Witness ==
    /\ entry = "main"
    /\ pc = "raised"
    /\ error.at = "save_report"
    /\ csv_file = [exists |-> TRUE, text |-> CsvText(employees)]
    /\ report # <<>>
    /\ console = SubSeq(ExpectedConsole, 1, 8)

====
